---- MODULE Spec2Model ----
(***************************************************************************)
(* gomvc: the provisioner (setupMVC) and the decommissioner (deleteMVC) of *)
(* gomvc.go, run against a small filesystem tree.  A state is the tree     *)
(* under the root path plus a record of the last two calls.                *)
(***************************************************************************)
EXTENDS Integers, Sequences, FiniteSets, TLC

VARIABLES fs, last, prev, calls

vars == <<fs, last, prev, calls>>

----------------------------------------------------------------------------
(* Bounds of the exploration.                                              *)

\* number of operations (provision, decommission, caller edit) in one run
MaxCalls == 2
\* number of entries the caller placed under the root before the first call
MaxPre == 1

----------------------------------------------------------------------------
(* The filesystem tree.                                                    *)

Root == "."
GoMod == "go.mod"
Notes == "notes.txt"
CmdExtra == "cmd/README"

\* setupMVC: the eight directories, in list order
dirs ==
  <<"cmd/api", "controller", "models", "pkg", "config", "views", "router", "middleware">>

\* setupMVC: the six files, in the order of the createFile calls
files ==
  <<"cmd/api/main.go", "controller/home_controller.go", "models/user.go",
    "pkg/utility.go", "router/router.go", "middleware/request_logger.go">>

\* variant: the list of setupMVC reused, cmd/api in place of cmd
deleteDirsWrong == dirs
\* deleteMVC: the eight top-level names, in list order
deleteDirs ==
  <<"cmd", "controller", "models", "pkg", "config", "views", "router", "middleware">>

Range(s) == {s[i] : i \in 1..Len(s)}

Paths == {Root, "cmd", CmdExtra, GoMod, Notes} \cup Range(dirs) \cup Range(files)

\* filepath.Join: the directory a path lies in
Parent(p) ==
  CASE p = Root -> Root
    [] p = "cmd/api" -> "cmd"
    [] p = CmdExtra -> "cmd"
    [] p = "cmd/api/main.go" -> "cmd/api"
    [] p = "controller/home_controller.go" -> "controller"
    [] p = "models/user.go" -> "models"
    [] p = "pkg/utility.go" -> "pkg"
    [] p = "router/router.go" -> "router"
    [] p = "middleware/request_logger.go" -> "middleware"
    [] OTHER -> Root

\* the directories a path lies in, up to the root
RECURSIVE AncestorsOf(_)
AncestorsOf(p) == IF p = Root THEN {} ELSE {Parent(p)} \cup AncestorsOf(Parent(p))

AncestorsTable == [p \in Paths |-> AncestorsOf(p)]
Ancestors(p) == AncestorsTable[p]

\* the entries of the subtree at p, p included
SubtreeTable == [p \in Paths |-> {q \in Paths : q = p \/ p \in Ancestors(q)}]
Subtree(p) == SubtreeTable[p]

Absent == [kind |-> "absent", data |-> <<>>]
Dir == [kind |-> "dir", data |-> <<>>]
\* a symbolic link that cannot be resolved (a loop): lstat sees it, stat fails
LoopLink == [kind |-> "symlink", data |-> <<>>]
File(c) == [kind |-> "file", data |-> c]

\* the module identifiers typed at the prompt, after TrimSpace
Ids == {"example.com/u/p1", "other.org/x"}

UserText == <<"edited by hand">>

\* os.Stat(path): nil, or the error it returns
Stat(f, p) ==
  IF \E a \in Ancestors(p) : f[a].kind \in {"file", "symlink"} THEN "ENOTDIR"
  ELSE IF \E a \in Ancestors(p) : f[a].kind = "absent" THEN "ENOENT"
  ELSE IF f[p].kind = "absent" THEN "ENOENT"
  ELSE IF f[p].kind = "symlink" THEN "ELOOP"
  ELSE "nil"

\* os.IsNotExist(err)
IsNotExist(err) == err = "ENOENT"

\* a tree is well formed when every entry lies in a directory
WellFormed(f) == \A p \in Paths \ {Root} : f[p].kind # "absent" => f[Parent(p)].kind = "dir"

----------------------------------------------------------------------------
(* The templates.  A template is a sequence of text pieces; the piece "%s" *)
(* is a substitution point of fmt.Sprintf.                                 *)

Verb == "%s"

mainGoTemplate ==
  <<"package main import ( fmt gin \"", Verb, "/router\" ) func main() { ... r.Run(:8080) }">>
controllerContent == <<"package controller ... func HomeController(c *gin.Context) { ... }">>
modelContent == <<"package models ... type User struct { ID Name Email }">>
pkgContent == <<"package pkg ... func PrintMessage(msg string) { ... }">>
routerTemplate ==
  <<"package router import ( gin \"", Verb, "/controller\" \"", Verb,
    "/middleware\" ) func InitializeRoutes(r *gin.Engine) { ... }">>
middlewareContent == <<"package middleware ... func RequestLogger() gin.HandlerFunc { ... }">>

\* fmt.Sprintf(template, args...): the k-th "%s" becomes args[k]
RECURSIVE Sprintf(_, _)
Sprintf(t, args) ==
  IF t = <<>> THEN <<>>
  ELSE IF Head(t) = Verb
       THEN <<Head(args)>> \o Sprintf(Tail(t), Tail(args))
       ELSE <<Head(t)>> \o Sprintf(Tail(t), args)

\* the content setupMVC passes to its j-th createFile call
Content(j, projectName) ==
  CASE j = 1 -> Sprintf(mainGoTemplate, <<projectName>>)
    [] j = 2 -> controllerContent
    [] j = 3 -> modelContent
    [] j = 4 -> pkgContent
    [] j = 5 -> Sprintf(routerTemplate, <<projectName, projectName>>)
    [] j = 6 -> middlewareContent

\* the manifest the module initializer writes
ModFile(projectName) == <<"module ", projectName>>

----------------------------------------------------------------------------
(* Faults of the environment: which system call of a run fails.            *)

NDirs == Len(dirs)
NFiles == Len(files)
NSteps == NDirs + NFiles

NoBudget == 0 - 1
NoFault == [at |-> 0, how |-> "none", part |-> 0]

\* at: the createDir/createFile call that fails (0: none); how: the system
\* call that fails in it; part: how much was done before the failure
SetupFaults ==
  {NoFault}
  \cup {[at |-> i, how |-> "mkdir", part |-> k] : i \in 1..NDirs, k \in 0..1}
  \cup {[at |-> NDirs + j, how |-> "create", part |-> 0] : j \in 1..NFiles}
  \cup UNION {{[at |-> NDirs + j, how |-> "write", part |-> k] :
                  k \in 0..(Len(Content(j, "")) - 1)} : j \in 1..NFiles}

\* at: the removal that fails (NDirs + 1: the removal of go.mod); part = 1:
\* RemoveAll emptied the directory before it failed
DeleteFaults ==
  {NoFault}
  \cup {[at |-> i, how |-> "remove", part |-> k] : i \in 1..(NDirs + 1), k \in 0..1}

----------------------------------------------------------------------------
(* createDir and createFile.                                               *)

\* the components of a path, top down
RECURSIVE ChainOf(_)
ChainOf(p) == IF p = Root THEN <<Root>> ELSE Append(ChainOf(Parent(p)), p)

ChainTable == [p \in Paths |-> ChainOf(p)]
Chain(p) == ChainTable[p]

\* os.MkdirAll: make each missing component, top down; budget is the number
\* of mkdir calls that succeed before one fails (NoBudget: none fails)
RECURSIVE MkdirChain(_, _, _, _)
MkdirChain(f, chain, i, budget) ==
  IF i > Len(chain) THEN [fs |-> f, err |-> "nil"]
  ELSE LET c == chain[i] IN
       IF f[c].kind = "dir" THEN MkdirChain(f, chain, i + 1, budget)
       ELSE IF f[c].kind # "absent" THEN [fs |-> f, err |-> "io"]
       ELSE IF budget = 0 THEN [fs |-> f, err |-> "io"]
       ELSE MkdirChain([f EXCEPT ![c] = Dir], chain, i + 1, budget - 1)

MkdirAll(f, path, budget) == MkdirChain(f, Chain(path), 1, budget)

createDir(f, path, budget) ==
  IF IsNotExist(Stat(f, path)) THEN MkdirAll(f, path, budget)
  ELSE [fs |-> f, err |-> "nil"]

Min(a, b) == IF a < b THEN a ELSE b

\* os.Create followed by file.WriteString
CreateAndWrite(f, path, content, fault) ==
  IF f[Parent(path)].kind # "dir" \/ fault.how = "create"
  THEN [fs |-> f, err |-> "io"]
  ELSE IF fault.how = "write"
  THEN [fs |-> [f EXCEPT ![path] =
                   File(SubSeq(content, 1, Min(fault.part, Len(content) - 1)))],
        err |-> "io"]
  ELSE [fs |-> [f EXCEPT ![path] = File(content)], err |-> "nil"]

\* variant: os.Create without the os.Stat guard
createFileOverwrites(f, path, content, fault) ==
  IF f[path].kind \in {"absent", "file"} THEN CreateAndWrite(f, path, content, fault)
  ELSE [fs |-> f, err |-> "nil"]

createFile(f, path, content, fault) ==
  IF IsNotExist(Stat(f, path)) THEN CreateAndWrite(f, path, content, fault)
  ELSE [fs |-> f, err |-> "nil"]

----------------------------------------------------------------------------
(* setupMVC.                                                               *)

\* exec.Command("go", "mod", "init", projectName) with cmd.Dir = rootPath,
\* then cmd.Run(): the launch fails when rootPath is no directory; exits is
\* the initializer's own outcome.  On success the manifest is at the root.
goModInit(f, projectName, exits) ==
  IF f[Root].kind # "dir" THEN [fs |-> f, err |-> "init"]
  ELSE IF ~exits THEN [fs |-> f, err |-> "init"]
  ELSE [fs |-> IF f[GoMod].kind = "absent"
               THEN [f EXCEPT ![GoMod] = File(ModFile(projectName))]
               ELSE f,
        err |-> "nil"]

\* the path the i-th createDir/createFile call of setupMVC works on
StepPath(i) == IF i <= NDirs THEN dirs[i] ELSE files[i - NDirs]

\* the i-th createDir/createFile call of setupMVC
Step(f, i, projectName, fault) ==
  IF i <= NDirs
  THEN createDir(f, dirs[i], IF fault.at = i THEN fault.part ELSE NoBudget)
  ELSE createFile(f, files[i - NDirs], Content(i - NDirs, projectName),
                  IF fault.at = i THEN fault ELSE NoFault)

\* variant: the error of a call is dropped
ReturnsNever(r) == FALSE
\* `if err := ...; err != nil { return err }`
ReturnsOnError(r) == r.err # "nil"

\* the loop over dirs and the six createFile calls; steps counts the calls
\* made, failed is the first call that returned an error (0: none)
RECURSIVE RunSteps(_, _, _, _, _)
RunSteps(f, i, projectName, fault, failed) ==
  IF i > NSteps THEN [fs |-> f, err |-> "nil", steps |-> NSteps, failed |-> failed]
  ELSE LET r == Step(f, i, projectName, fault)
           fl == IF failed = 0 /\ r.err # "nil" THEN i ELSE failed
       IN IF ReturnsOnError(r)
          THEN [fs |-> r.fs, err |-> r.err, steps |-> i, failed |-> fl]
          ELSE RunSteps(r.fs, i + 1, projectName, fault, fl)

\* variant: the error of cmd.Run is dropped
setupMVCIgnoresInit(f, read, projectName, exits, fault) ==
  IF ~read THEN [fs |-> f, err |-> "input", steps |-> 0, failed |-> 0]
  ELSE RunSteps(goModInit(f, projectName, exits).fs, 1, projectName, fault, 0)

\* read: whether reader.ReadString('\n') returned a line; projectName: the
\* line after strings.TrimSpace
setupMVC(f, read, projectName, exits, fault) ==
  IF ~read THEN [fs |-> f, err |-> "input", steps |-> 0, failed |-> 0]
  ELSE LET m == goModInit(f, projectName, exits) IN
       IF m.err # "nil" THEN [fs |-> m.fs, err |-> m.err, steps |-> 0, failed |-> 0]
       ELSE RunSteps(m.fs, 1, projectName, fault, 0)

----------------------------------------------------------------------------
(* deleteMVC.                                                              *)

\* os.RemoveAll(path): nil when nothing is there; a failure leaves the entry
\* itself, with (part = 1) or without (part = 0) its content removed
RemoveAll(f, path, fault) ==
  IF f[path].kind = "absent" THEN [fs |-> f, err |-> "nil"]
  ELSE IF fault.how = "remove"
  THEN [fs |-> [q \in Paths |->
                  IF fault.part = 1 /\ q \in Subtree(path) \ {path} THEN Absent ELSE f[q]],
        err |-> "io"]
  ELSE [fs |-> [q \in Paths |-> IF q \in Subtree(path) THEN Absent ELSE f[q]],
        err |-> "nil"]

\* the loop of deleteMVC over its eight names
RECURSIVE RemoveSteps(_, _, _)
RemoveSteps(f, i, fault) ==
  IF i > Len(deleteDirs) THEN [fs |-> f, err |-> "nil", steps |-> Len(deleteDirs), failed |-> 0]
  ELSE LET r == RemoveAll(f, deleteDirs[i], IF fault.at = i THEN fault ELSE NoFault)
       IN IF r.err # "nil"
          THEN [fs |-> r.fs, err |-> r.err, steps |-> i, failed |-> i]
          ELSE RemoveSteps(r.fs, i + 1, fault)

\* variant: os.Remove(goModPath) without the os.Stat guard
removeGoModNoStat(f, fault) ==
  IF f[GoMod].kind = "absent" \/ fault.at = Len(deleteDirs) + 1
  THEN [fs |-> f, err |-> "io"]
  ELSE [fs |-> [f EXCEPT ![GoMod] = Absent], err |-> "nil"]

\* `if _, err := os.Stat(goModPath); err == nil { os.Remove(goModPath) }`
removeGoMod(f, fault) ==
  IF Stat(f, GoMod) = "nil"
  THEN IF fault.at = Len(deleteDirs) + 1
       THEN [fs |-> f, err |-> "io"]
       ELSE [fs |-> [f EXCEPT ![GoMod] = Absent], err |-> "nil"]
  ELSE [fs |-> f, err |-> "nil"]

\* variant: a blanket wipe of rootPath
deleteMVCWipesRoot(f, fault) ==
  [fs |-> [q \in Paths |-> IF q = Root THEN f[q] ELSE Absent],
   err |-> "nil", steps |-> Len(deleteDirs) + 1, failed |-> 0]

deleteMVC(f, fault) ==
  LET d == RemoveSteps(f, 1, fault) IN
  IF d.err # "nil" THEN d
  ELSE LET g == removeGoMod(d.fs, fault) IN
       [fs |-> g.fs, err |-> g.err, steps |-> Len(deleteDirs) + 1,
        failed |-> IF g.err # "nil" THEN Len(deleteDirs) + 1 ELSE 0]

----------------------------------------------------------------------------
(* The initial trees and the state machine.                                *)

DirLike == {"cmd"} \cup Range(dirs)

\* what the caller may have placed at a path before the first call
SeedValues(p) ==
  IF p \in DirLike THEN {Dir, File(UserText)}
  ELSE IF p = GoMod THEN {File(ModFile(id)) : id \in Ids} \cup {LoopLink}
  ELSE {File(UserText)}

Seeds == UNION {{<<p, v>> : v \in SeedValues(p)} : p \in Paths \ {Root}}

\* seeds that can lie in one tree: one value per path, directories above
Consistent(S) ==
  /\ \A s, t \in S : s[1] = t[1] => s = t
  /\ \A s, t \in S : s[1] \in Ancestors(t[1]) => s[2] = Dir

RECURSIVE SeedSetsUpTo(_)
SeedSetsUpTo(n) ==
  IF n = 0 THEN {{}}
  ELSE LET smaller == SeedSetsUpTo(n - 1) IN
       smaller \cup {S \cup {s} : S \in smaller, s \in Seeds}

SeedSets == {S \in SeedSetsUpTo(MaxPre) : Consistent(S)}

\* the tree holding the seeds S and the directories they lie in
TreeOf(S) ==
  [p \in Paths |->
     IF \E s \in S : s[1] = p THEN (CHOOSE s \in S : s[1] = p)[2]
     ELSE IF p = Root \/ \E s \in S : p \in Ancestors(s[1]) THEN Dir
     ELSE Absent]

EmptyTree == [p \in Paths |-> Absent]

NoCall == [op |-> "none", err |-> "nil", id |-> "", steps |-> 0, failed |-> 0,
           initErr |-> "notrun", clean |-> TRUE, pre |-> EmptyTree]

Init ==
  /\ fs \in {EmptyTree} \cup {TreeOf(S) : S \in SeedSets}
  /\ last = NoCall
  /\ prev = NoCall
  /\ calls = 0

\* gomvc -create <path>
Provision ==
  /\ calls < MaxCalls
  /\ \E read \in BOOLEAN, id \in Ids, exits \in BOOLEAN, fault \in SetupFaults :
       /\ ~read => (exits /\ fault = NoFault)
       /\ ~exits => fault = NoFault
       /\ LET r == setupMVC(fs, read, id, exits, fault) IN
          /\ fs' = r.fs
          /\ last' = [op |-> "setup", err |-> r.err, id |-> id, steps |-> r.steps,
                      failed |-> r.failed,
                      initErr |-> IF read THEN goModInit(fs, id, exits).err ELSE "notrun",
                      clean |-> (read /\ exits /\ fault = NoFault),
                      pre |-> fs]
  /\ prev' = last
  /\ calls' = calls + 1

\* gomvc -delete <path>
Decommission ==
  /\ calls < MaxCalls
  /\ \E fault \in DeleteFaults :
       LET r == deleteMVC(fs, fault) IN
       /\ fs' = r.fs
       /\ last' = [op |-> "delete", err |-> r.err, id |-> "", steps |-> r.steps,
                   failed |-> r.failed, initErr |-> "notrun",
                   clean |-> (fault = NoFault), pre |-> fs]
  /\ prev' = last
  /\ calls' = calls + 1

\* between two calls the caller adds a file of their own under the root
CallerAddsFile ==
  /\ calls < MaxCalls
  /\ \E p \in {Notes, CmdExtra} :
       /\ fs[p].kind = "absent"
       /\ fs[Parent(p)].kind = "dir"
       /\ fs' = [fs EXCEPT ![p] = File(UserText)]
  /\ last' = [NoCall EXCEPT !.op = "edit", !.pre = fs]
  /\ prev' = last
  /\ calls' = calls + 1

Next == Provision \/ Decommission \/ CallerAddsFile

Spec == Init /\ [][Next]_vars

TypeOK == WellFormed(fs) /\ calls \in 0..MaxCalls

----------------------------------------------------------------------------
(* The claims.                                                             *)

\* the eight directories and six files of the layout, and the eight
\* top-level names the decommissioner is scoped to
EightDirs ==
  {"cmd/api", "controller", "models", "pkg", "config", "views", "router", "middleware"}
SixFiles ==
  {"cmd/api/main.go", "controller/home_controller.go", "models/user.go",
   "pkg/utility.go", "router/router.go", "middleware/request_logger.go"}
TopNames ==
  {"cmd", "controller", "models", "pkg", "config", "views", "router", "middleware"}

\* the eight top-level names and the manifest absent from tree f
NamesAbsent(f) == \A p \in TopNames \cup {GoMod} : f[p] = Absent

\* everything under the root is as in tree g
SameUnderRoot(f, g) == \A p \in Paths \ {Root} : f[p] = g[p]

SetupThenDelete ==
  /\ prev.op = "setup" /\ prev.err = "nil"
  /\ last.op = "delete" /\ last.err = "nil"

\* C1 as stated: after a successful setupMVC followed by a successful
\* deleteMVC the tree under the root is what it was before setupMVC started,
\* whatever the root held at that time.
C1_RoundTripAnyTree == SetupThenDelete => SameUnderRoot(fs, prev.pre)

\* C1 as amended: the round trip restores the tree under the root when none
\* of the eight top-level names and no go.mod was under the root before
\* setupMVC started.
C1_RoundTripFreshNames ==
  (SetupThenDelete /\ NamesAbsent(prev.pre)) => SameUnderRoot(fs, prev.pre)

C1_Witness ==
  /\ SetupThenDelete
  /\ NamesAbsent(prev.pre)
  /\ prev.pre[Notes] = File(UserText)
  /\ last.pre[files[1]].kind = "file"
  /\ SameUnderRoot(fs, prev.pre)

\* C2: whether deleteMVC succeeds or fails, every entry that lies outside the
\* eight names of deleteMVC and is not go.mod is after the call what it was
\* before it.
C2_DeleteScoped ==
  last.op = "delete" =>
    \A p \in Paths \ (UNION {Subtree(n) : n \in TopNames} \cup {GoMod}) :
      fs[p] = last.pre[p]

C2_Witness ==
  /\ prev.op = "edit"
  /\ last.op = "delete"
  /\ prev.pre[Notes] = Absent
  /\ fs[Notes] = File(UserText)
  /\ \E n \in TopNames : last.pre[n] # Absent /\ fs[n] = Absent

\* C3: a file that is at one of the six paths before setupMVC runs has the
\* same content after the run, also when it was written by an earlier run.
C3_NeverOverwrites ==
  last.op = "setup" =>
    \A p \in SixFiles : last.pre[p].kind = "file" => fs[p] = last.pre[p]

C3_Witness ==
  /\ prev.op = "setup" /\ prev.err = "nil"
  /\ last.op = "setup" /\ last.err = "nil"
  /\ last.id # prev.id
  /\ prev.pre[files[1]] = Absent
  /\ fs[files[1]] = File(Content(1, prev.id))

\* C4: whenever setupMVC returns success, the eight paths are directories
\* and the six files exist.
C4_SetupPostcondition ==
  (last.op = "setup" /\ last.err = "nil") =>
    /\ \A d \in EightDirs : fs[d].kind = "dir"
    /\ \A p \in SixFiles : fs[p].kind = "file"

\* C5: when the module initializer fails to launch or exits non-zero,
\* setupMVC returns an error and none of the eight directories and six files
\* is created: the tree is what it was.
C5_InitFailureCreatesNothing ==
  (last.op = "setup" /\ last.initErr = "init") =>
    /\ last.err # "nil"
    /\ \A p \in Paths : fs[p] = last.pre[p]

C5_Witness ==
  /\ last.op = "setup" /\ last.initErr = "init"
  /\ last.pre[Root] = Dir
  /\ last.pre["cmd"] = Absent
  /\ fs["cmd"] = Absent

\* C6: a deleteMVC that directly follows a successful deleteMVC returns no
\* error and leaves the tree as the first call left it.
C6_DeleteIdempotent ==
  (prev.op = "delete" /\ prev.err = "nil" /\ last.op = "delete") =>
    /\ last.err = "nil"
    /\ \A p \in Paths : fs[p] = last.pre[p]

C6_Witness ==
  /\ prev.op = "delete" /\ prev.err = "nil"
  /\ last.op = "delete" /\ last.err = "nil"
  /\ \E p \in TopNames \cup {GoMod} : prev.pre[p] # Absent /\ last.pre[p] = Absent

\* C7: whenever deleteMVC returns success, none of the eight names and no
\* go.mod is left under the root.
C7_DeletePostcondition ==
  (last.op = "delete" /\ last.err = "nil") => NamesAbsent(fs)

\* C8: setupMVC on a root path that does not exist, with the initializer
\* ready to succeed and no failing system call, creates the root and
\* returns success with the full tree under it.
C8_MissingRootIsCreated ==
  (last.op = "setup" /\ last.clean /\ last.pre[Root] = Absent) =>
    /\ last.err = "nil"
    /\ fs[Root] = Dir
    /\ \A d \in EightDirs : fs[d] = Dir

\* C9: when a createDir or createFile call of setupMVC fails, the run
\* returns an error at that call, no later path of the fixed order is
\* touched, and what the earlier calls created is in place.
C9_FirstFailureAborts ==
  (last.op = "setup" /\ last.failed # 0) =>
    /\ last.err = "io"
    /\ last.steps = last.failed
    /\ \A j \in (last.failed + 1)..NSteps : fs[StepPath(j)] = last.pre[StepPath(j)]
    /\ \A j \in 1..(last.failed - 1) :
         fs[StepPath(j)] =
           IF Stat(last.pre, StepPath(j)) # "ENOENT" THEN last.pre[StepPath(j)]
           ELSE IF j <= NDirs THEN Dir
           ELSE File(Content(j - NDirs, last.id))

C9_Witness ==
  /\ last.op = "setup" /\ last.failed = NDirs + 2
  /\ last.err = "io"
  /\ last.pre[files[1]] = Absent
  /\ fs[files[1]] = File(Content(1, last.id))
  /\ fs[files[3]] = Absent

\* C10, on a root that held none of the eight names and no go.mod: after a
\* setupMVC that aborted at a createDir or createFile call, a setupMVC with
\* the same module identifier in which the initializer succeeds and no
\* system call fails ends with the eight directories and with each of the
\* six files holding its whole rendered template.
C10_RerunCompletes ==
  (/\ prev.op = "setup" /\ prev.failed # 0
   /\ prev.pre[Root] = Dir /\ NamesAbsent(prev.pre)
   /\ last.op = "setup" /\ last.clean /\ last.id = prev.id) =>
    /\ last.err = "nil"
    /\ \A d \in EightDirs : fs[d] = Dir
    /\ \A j \in 1..NFiles : fs[files[j]] = File(Content(j, last.id))

====
